---- MODULE Spec2Model ----
(***************************************************************************)
(* Model of reception.go: the map generation driver (main), the CSV        *)
(* loaders (loadOperators, loadReports), the legend writer (plotLegend,    *)
(* newDrawLegend), the projector (newGpsToPixel) and the icon plotter      *)
(* (plotIcon), over a small raster.                                        *)
(*                                                                         *)
(* Conventions.  A Go string that the program inspects character by        *)
(* character (call signs, the CallSigns option) is a sequence of           *)
(* one-character strings; Str turns it into the text that is concatenated  *)
(* into legends and file names.  A float64 of the configuration is a       *)
(* rational [n, d] with d > 0; numeric operator attributes are whole       *)
(* numbers.  A pixel is <<v, a>>: one premultiplied colour channel and     *)
(* alpha, both 8 bit.  An image is [W, H, Pix] with Pix its rows from the   *)
(* top, each row its pixels from the left; At(img, <<x, y>>) is the pixel   *)
(* at column x and row y, both counted from 0.                              *)
(***************************************************************************)
EXTENDS Integers, Sequences, FiniteSets, TLC

VARIABLES
    cfg,           \* the global configuration (reception.cfg + flags)
    pc,            \* position of main
    operators,     \* map call sign -> operatorData
    reports,       \* map transmitter -> map receiver -> category
    receivers,     \* set of receiver keys
    transmitters,  \* set of transmitter keys (after selection: the selected ones)
    record,        \* the record loadReports has read last, <<>> outside loadReports
    nread,         \* number of records loadReports has read, 0 outside loadReports
    todo,          \* transmitters the range loop has not visited yet
    transmitter,   \* loop variable of the range loop
    outputMap,     \* *outputMapPtr, the reused output raster
    mapTextImage,  \* *mapTextImagePtr, the reused text layer
    drawLegend,    \* the cursor closed over by the current drawLegend closure
    calls,         \* draw calls made on the two layers since the last reset
    files,         \* the output directory: file name -> content
    notices,       \* the notices printed while the transmitters are selected
    steps          \* the driver steps taken so far, <<step, transmitter>>

vars == <<cfg, pc, operators, reports, receivers, transmitters, record, nread,
          todo, transmitter, outputMap, mapTextImage, drawLegend, calls,
          files, notices, steps>>

---------------------------------------------------------------------------
(* Bounds of the model *)

\* longest report file read, in records
MaxReports == 2

\* width and height of the base map, in pixels
MapWidth == 4

MapHeight == 7

---------------------------------------------------------------------------
(* Strings *)

UpperChar(c) ==
    CASE c = "a" -> "A"
      [] c = "b" -> "B"
      [] c = "c" -> "C"
      [] c = "l" -> "L"
      [] OTHER -> c

\* strings.ToUpper
ToUpper(s) == [i \in DOMAIN s |-> UpperChar(s[i])]

IsNotSpace(c) == c # " "

\* strings.ReplaceAll(s, " ", "")
RemoveSpaces(s) == SelectSeq(s, IsNotSpace)

\* the text of a character sequence
RECURSIVE Str(_)
Str(s) == IF s = <<>> THEN "" ELSE s[1] \o Str(Tail(s))

\* strings.Split(s, ","): always at least one field
RECURSIVE SplitFrom(_, _)
SplitFrom(s, cur) ==
    IF s = <<>> THEN <<cur>>
    ELSE IF s[1] = "," THEN <<cur>> \o SplitFrom(Tail(s), <<>>)
    ELSE SplitFrom(Tail(s), Append(cur, s[1]))

Split(s) == SplitFrom(s, <<>>)

\* fmt.Sprintf("%.0f", v) for a whole number v
Fmt0(v) == ToString(v)

\* fmt.Sprintf("%.1f", v) for a whole number v
Fmt1(v) == ToString(v) \o ".0"

---------------------------------------------------------------------------
(* Numbers *)

\* Go's int(x) of the rational n/d, d > 0: truncation toward zero
Trunc(n, d) == IF n >= 0 THEN n \div d ELSE -((-n) \div d)

\* int(n/d + 0.5)
IntHalfUp(n, d) == Trunc(2 * n + d, 2 * d)

---------------------------------------------------------------------------
(* Images *)

\* the points of a rectangle from (0, 0) to (w, h)
Pixels(w, h) == (0 .. w - 1) \X (0 .. h - 1)

\* the first n values of f, as a sequence built value by value
RECURSIVE Filled(_, _)
Filled(f, n) == IF n = 0 THEN <<>> ELSE Append(Filled(f, n - 1), f[n])

\* the image of width w and height h whose pixel at point p is f[p]
MakeImage(w, h, f) ==
    LET row(y) == [x \in 1 .. w |-> f[<<x - 1, y - 1>>]]
        rows == [y \in 1 .. h |-> Filled(row(y), w)]
    IN [W |-> w, H |-> h, Pix |-> Filled(rows, h)]

\* the points of an image
Points(img) == Pixels(img.W, img.H)

\* img.At(x, y)
At(img, p) == img.Pix[p[2] + 1][p[1] + 1]

\* image.Transparent
Transparent == <<0, 0>>

\* color.RGBA{0x10, 0x10, 0x10, 0xff}, the colour of text
TextColor == <<16, 255>>

\* one channel of draw.Over on 8-bit pixels: with m = 0xffff, sa16 = sa*0x101,
\* a = (m - sa16)*0x101: dst = (dst*a/m + src*0x101) >> 8.  As m = 255*257,
\* dst*a/m = dst*257*(255 - sa)/255, which stays within 32 bits.
OverChannel(d, s, sa) ==
    (((d * 257 * (255 - sa)) \div 255) + s * 257) \div 256

\* Over as it would be if the source replaced the destination, as draw.Src
OverSrc(d, s) == s

\* draw.Over of source pixel s onto destination pixel d
Over(d, s) == <<OverChannel(d[1], s[1], s[2]), OverChannel(d[2], s[2], s[2])>>

\* the element of a set of one element
TheOne(S) == CHOOSE v \in S : TRUE

\* the map files there are, each named by the <<width, height>> of its
\* image; the configuration file names the last
MapFiles == {<<1, 1>>, <<2, 5>>, <<6, 2>>, <<MapWidth, MapHeight>>}

\* loadBaseMap: the image decoded from a map file, opaque, every pixel its
\* own colour
loadBaseMap(file) ==
    MakeImage(file[1], file[2],
              [p \in Pixels(file[1], file[2]) |->
                  <<200 + ((p[1] + file[1] * p[2]) % 50), 255>>])

\* image.NewRGBA(bounds) filled with image.Transparent
NewTransparent(w, h) == MakeImage(w, h, [p \in Pixels(w, h) |-> Transparent])

\* what each map file decodes to, and the transparent image of its bounds
Decoded ==
    {[file |-> f, image |-> loadBaseMap(f), clear |-> NewTransparent(f[1], f[2])] :
        f \in MapFiles}

\* loadIcons: the catalog of the icon directory, resized to IconSize = 2.
\* "Good" is opaque; "Trans" has a transparent corner and a half-transparent
\* pixel.
icons ==
    [name \in {"Good", "Trans"} |->
        LET good == [p \in Pixels(2, 2) |-> <<100, 255>>]
            trans == [p \in Pixels(2, 2) |->
                         IF p = <<0, 0>> THEN Transparent
                         ELSE IF p = <<1, 0>> THEN <<30, 128>>
                         ELSE <<60, 255>>]
        IN IF name = "Good" THEN MakeImage(2, 2, good) ELSE MakeImage(2, 2, trans)]

\* an interface value holding no image (the zero value of image.Image)
NilImage == [W |-> 0, H |-> 0, Pix |-> <<>>]

\* icons[name] as Go evaluates it: the zero value for a missing key
IconOf(name) == IF name \in DOMAIN icons THEN icons[name] ELSE NilImage

\* draw.Draw(dst, dst.Bounds(), src, image.Point{}, draw.Src) for same-size images
DrawSrc(dst, src) == [dst EXCEPT !.Pix = src.Pix]

\* draw.Draw(dst, src.Bounds().Add(offset), src, image.Point{}, draw.Over),
\* clipped to dst: the rows of dst that src reaches are composed pixel by
\* pixel, the others are kept
DrawOver(dst, src, offset) ==
    LET pixel(x, y) ==
            LET q == <<x - 1 - offset[1], y - 1 - offset[2]>>
            IN IF q[1] \in 0 .. src.W - 1
               THEN Over(dst.Pix[y][x], At(src, q))
               ELSE dst.Pix[y][x]
        row(y) ==
            IF y - 1 - offset[2] \in 0 .. src.H - 1
            THEN Filled([x \in 1 .. dst.W |-> pixel(x, y)], dst.W)
            ELSE dst.Pix[y]
    IN [dst EXCEPT !.Pix = Filled([y \in 1 .. dst.H |-> row(y)], dst.H)]

\* contextPtr.DrawString(text, pt) on the text layer, the baseline origin of
\* the text at pt: a glyph covers one pixel, in the row above the baseline,
\* and glyphs advance by one pixel; the covered pixels inside the clip
\* rectangle take the text colour
DrawString(img, text, pt) ==
    LET y == pt[2]
        pixel(x) ==
            IF x - 1 - pt[1] \in 0 .. Len(text) - 1
            THEN Over(img.Pix[y][x], TextColor)
            ELSE img.Pix[y][x]
    IN IF y \in 1 .. img.H
       THEN [img EXCEPT !.Pix[y] = Filled([x \in 1 .. img.W |-> pixel(x)], img.W)]
       ELSE img

\* baseMapPtr := loadBaseMap(cfg.MapFile)
baseMap == TheOne({d.image : d \in {e \in Decoded : e.file = cfg.MapFile}})

\* image.NewRGBA(baseMap.Bounds()) filled with image.Transparent
TransparentImage ==
    TheOne({d.clear : d \in {e \in Decoded : e.file = cfg.MapFile}})

---------------------------------------------------------------------------
(* Configuration and inputs *)

\* the configurations a run is started with: reception.cfg after flag parsing.
\* The font is small enough for labels and legend to fall inside the raster:
\* FontSize 0.2 pt at 168 dpi with line spacing 1.5 gives a line height of 1.
\* The icon directory holds no icon named Beacon, which one configuration
\* names as the icon of the transmitter.
Configs ==
    {c \in [RcvMapFlag : BOOLEAN,
            CallSigns : {<<"A", "L", "L">>, <<"a", "l", "l">>,
                         <<"a", ",", " ", "c">>},
            OutputDirectory : {"output"},
            TransIcon : {"Trans", "Beacon"},
            MapFile : {<<MapWidth, MapHeight>>},
            MapNWCorner : {<<7, 0>>},
            MapSECorner : {<<0, 4>>},
            FontDPI : {[n |-> 168, d |-> 1]},
            FontSize : {[n |-> 1, d |-> 5]},
            FontLineSpacing : {[n |-> 3, d |-> 2]}] :
        c.TransIcon = "Beacon" => (c.RcvMapFlag /\ c.CallSigns = <<"A", "L", "L">>)}

\* the records an operator file is made of: call sign, latitude, longitude,
\* power, antenna type, gain, height.  "b" is co-located with "A" in its first
\* record and has no known attribute there.
OperatorRecords ==
    {<<<<"A">>, 5, 1, 5, "Yagi", 2, 30>>,
     <<<<"b">>, 5, 1, -100, "", -100, -100>>,
     <<<<"b">>, 2, 2, 10, "", 0, -100>>}

\* the records a report file is made of: two call signs and a category
ReportRecords == {<<"A">>, <<"b">>} \X {<<"A">>, <<"b">>} \X {"Good", "Odd", ""}

\* the records of a report file in which "b" is also spelled with an embedded
\* space
SpelledReportRecords ==
    {<<<<"A">>, <<"b">>, "Good">>, <<<<"A">>, <<"b", " ">>, "Good">>,
     <<<<"b", " ">>, <<"A">>, "Good">>}

\* the records of an operator file of three stations next to each other:
\* the icon of "b" lies under the label of "A", the icons of "b" and "c"
\* overlap, and the labels lie below the lines of the legend
CrowdedOperatorRecords ==
    {<<<<"A">>, 1, 1, 5, "", 0, 0>>,
     <<<<"b">>, 1, 2, 5, "", 0, 0>>,
     <<<<"c">>, 1, 3, 5, "", 0, 0>>}

\* the records of a report file on these stations, the categories being
\* names of icons
CrowdedReportRecords ==
    {<<<<"A">>, <<"b">>, "Good">>, <<<<"A">>, <<"c">>, "Trans">>,
     <<<<"A">>, <<"A">>, "Good">>}

\* icons of every width and height up to 3, as loadIcons makes them of icon
\* files of differing IconSize and aspect ratio; the top-left pixel is half
\* transparent
SampleIcons ==
    {MakeImage(w, h, [p \in Pixels(w, h) |->
                        <<40 + p[1] + 3 * p[2], IF p = <<0, 0>> THEN 128 ELSE 255>>]) :
        w \in 1 .. 3, h \in 1 .. 3}

\* receive maps of every transmitter in three font sizes: 0.2, 1 and 3 points
FontConfigs ==
    {[c EXCEPT !.FontSize = fs] :
        c \in {d \in Configs : /\ d.RcvMapFlag
                               /\ d.CallSigns = <<"A", "L", "L">>
                               /\ d.TransIcon = "Trans"},
        fs \in {[n |-> 1, d |-> 5], [n |-> 1, d |-> 1], [n |-> 3, d |-> 1]}}

\* receive maps of every transmitter with the two corners the wrong way
\* round, on both axes or on the east-west axis alone
MalformedConfigs ==
    {[c EXCEPT !.MapNWCorner = corners[1], !.MapSECorner = corners[2]] :
        c \in {d \in Configs : /\ d.RcvMapFlag
                               /\ d.CallSigns = <<"A", "L", "L">>
                               /\ d.TransIcon = "Trans"},
        corners \in {<<<<0, 4>>, <<7, 0>>>>, <<<<7, 4>>, <<0, 0>>>>}}

\* receive maps of every transmitter at 120 dpi: FontSize 0.2 pt with line
\* spacing 1.5 gives 0.5 pixel per line, which rounds to a line height of 1
CoarseConfigs ==
    {[c EXCEPT !.FontDPI = [n |-> 120, d |-> 1]] :
        c \in {d \in Configs : /\ d.RcvMapFlag
                               /\ d.CallSigns = <<"A", "L", "L">>
                               /\ d.TransIcon = "Trans"}}

\* the records of an operator file and of a report file with the call sign
\* "b-1" beside "b"
HyphenOperatorRecords ==
    {<<<<"A">>, 5, 1, 5, "", 0, 0>>,
     <<<<"b">>, 2, 2, 5, "", 0, 0>>,
     <<<<"b", "-", "1">>, 1, 3, 5, "", 0, 0>>}

HyphenReportRecords ==
    {<<<<"A">>, <<"b", "-", "1">>, "Good">>, <<<<"A">>, <<"b">>, "Good">>,
     <<<<"b", "-", "1">>, <<"A">>, "Good">>}

\* the configurations of a survey of the projector: each pair of corners has
\* the south-east corner strictly south and east of the north-west corner
SurveyConfigs ==
    {[c EXCEPT !.MapFile = f, !.MapNWCorner = nw, !.MapSECorner = se] :
        c \in {d \in Configs : /\ d.RcvMapFlag
                               /\ d.CallSigns = <<"A", "L", "L">>
                               /\ d.TransIcon = "Trans"},
        f \in MapFiles,
        nw \in {<<7, 0>>, <<21, -3>>},
        se \in {<<0, 4>>, <<-1, 12>>}}

\* the records of an operator file that surveys the map: stations at the
\* corners, one unit inside the bounds, and two units north and west of the
\* north-west corner
SurveyRecords ==
    {<<call, lat, long, 5, "", 0, 0>> :
        call \in {<<"A">>, <<"b">>},
        lat \in {cfg.MapNWCorner[1] + 2, cfg.MapNWCorner[1],
                 cfg.MapNWCorner[1] - 1, cfg.MapSECorner[1]},
        long \in {cfg.MapNWCorner[2] - 2, cfg.MapNWCorner[2],
                  cfg.MapNWCorner[2] + 1, cfg.MapSECorner[2]}}

---------------------------------------------------------------------------
(* newGpsToPixel *)

\* UTM.FromLatLon, as the locally flat grid it is over the extent of one map:
\* <<easting, northing>>.
FromLatLon(lat, long) == <<100 * long, 100 * lat>>

\* int(n/d + 0.5) for a quotient of either sign, d # 0
IntHalfUpQ(n, d) == IF d > 0 THEN IntHalfUp(n, d) ELSE IntHalfUp(-n, -d)

\* a projector that scales eastings by the height of the image and
\* northings by its width
newGpsToPixelTransposed(mapImage, gps) ==
    LET NW == FromLatLon(cfg.MapNWCorner[1], cfg.MapNWCorner[2])
        SE == FromLatLon(cfg.MapSECorner[1], cfg.MapSECorner[2])
        en == FromLatLon(gps[1], gps[2])
    IN <<IntHalfUpQ((en[1] - NW[1]) * mapImage.H, SE[1] - NW[1]),
         IntHalfUpQ((NW[2] - en[2]) * mapImage.W, NW[2] - SE[2])>>

\* a projector whose pixel Y grows to the north
newGpsToPixelSouthUp(mapImage, gps) ==
    LET NW == FromLatLon(cfg.MapNWCorner[1], cfg.MapNWCorner[2])
        SE == FromLatLon(cfg.MapSECorner[1], cfg.MapSECorner[2])
        en == FromLatLon(gps[1], gps[2])
    IN <<IntHalfUpQ((en[1] - NW[1]) * mapImage.W, SE[1] - NW[1]),
         IntHalfUpQ((en[2] - NW[2]) * mapImage.H, NW[2] - SE[2])>>

\* the closure newGpsToPixel(mapImage) returns, applied to gps = <<lat, long>>
newGpsToPixel(mapImage, gps) ==
    LET NW == FromLatLon(cfg.MapNWCorner[1], cfg.MapNWCorner[2])
        SE == FromLatLon(cfg.MapSECorner[1], cfg.MapSECorner[2])
        en == FromLatLon(gps[1], gps[2])
        \* xMetersPerPixel = (eastingSE - eastingNW) / Dx, kept as a quotient
    IN <<IntHalfUpQ((en[1] - NW[1]) * mapImage.W, SE[1] - NW[1]),
         IntHalfUpQ((NW[2] - en[2]) * mapImage.H, NW[2] - SE[2])>>

\* gpsToPixel := newGpsToPixel(baseMapPtr)
gpsToPixel(gps) == newGpsToPixel(baseMap, gps)

---------------------------------------------------------------------------
(* loadOperators, loadReports *)

\* the zero value of operatorData, which a lookup of a missing key yields
ZeroOperator ==
    [callsign |-> <<>>, gps |-> <<0, 0>>, pixel |-> <<0, 0>>, xmitPwr |-> 0,
     antType |-> "", antGain |-> 0, antHeight |-> 0]

\* the part of a call sign before its first hyphen
Stem(call) ==
    IF \E i \in DOMAIN call : call[i] = "-"
    THEN SubSeq(call, 1, (CHOOSE i \in DOMAIN call :
                            /\ call[i] = "-"
                            /\ \A j \in 1 .. i - 1 : call[j] # "-") - 1)
    ELSE call

\* OperatorOf as it would be with a second lookup of the part of the call
\* sign before the hyphen
OperatorOfStem(call) ==
    IF call \in DOMAIN operators THEN operators[call]
    ELSE IF Stem(call) \in DOMAIN operators THEN operators[Stem(call)]
    ELSE ZeroOperator

\* operators[call]
OperatorOf(call) ==
    IF call \in DOMAIN operators THEN operators[call] ELSE ZeroOperator

\* the operatorData loadOperators builds from one record
OperatorData(rec) ==
    [callsign |-> RemoveSpaces(ToUpper(rec[1])),
     gps |-> <<rec[2], rec[3]>>,
     pixel |-> gpsToPixel(<<rec[2], rec[3]>>),
     xmitPwr |-> rec[4],
     antType |-> rec[5],
     antGain |-> rec[6],
     antHeight |-> rec[7]]

\* m[k] = v on a Go map
Put(m, k, v) == [x \in DOMAIN m \cup {k} |-> IF x = k THEN v ELSE m[x]]

\* the call sign loadReports takes as the map's transmitter from a record
ReportTransmitter(rec) ==
    IF cfg.RcvMapFlag THEN ToUpper(rec[1]) ELSE ToUpper(rec[2])

\* the call sign loadReports takes as the receiver from a record
ReportReceiver(rec) ==
    IF cfg.RcvMapFlag THEN ToUpper(rec[2]) ELSE ToUpper(rec[1])

\* reports[t][r], "" when either key is missing
ReportOf(t, r) ==
    IF t \in DOMAIN reports /\ r \in DOMAIN reports[t] THEN reports[t][r] ELSE ""

\* The construction main starts from: configuration loaded, assets loaded,
\* the projector and the text layer created, nothing read yet.
\* main before its first call, whatever the configuration read
Start ==
    /\ pc = "loadOperators"
    /\ operators = <<>>
    /\ reports = <<>>
    /\ receivers = {}
    /\ transmitters = {}
    /\ record = <<>>
    /\ nread = 0
    /\ todo = {}
    /\ transmitter = <<>>
    /\ outputMap = TransparentImage
    /\ mapTextImage = TransparentImage
    /\ drawLegend = [cursorX |-> 0, cursorY |-> 0]
    /\ calls = <<>>
    /\ files = <<>>
    /\ notices = <<>>
    /\ steps = <<>>

Init ==
    /\ cfg \in Configs
    /\ Start

\* one iteration of the read loop of loadOperators, on an operator file made
\* of Records
LoadOperatorFrom(Records) ==
    /\ pc = "loadOperators"
    /\ \E rec \in Records :
        operators' = Put(operators, OperatorData(rec).callsign, OperatorData(rec))
    /\ UNCHANGED <<cfg, notices, pc, reports, receivers, transmitters, record, nread, todo,
                   transmitter, outputMap, mapTextImage, drawLegend, calls, files,
                   steps>>

LoadOperator == LoadOperatorFrom(OperatorRecords)

\* io.EOF in loadOperators: return to main, which calls loadReports
OperatorsEOF ==
    /\ pc = "loadOperators"
    /\ pc' = "loadReports"
    /\ UNCHANGED <<cfg, notices, operators, reports, receivers, transmitters, record, nread,
                   todo, transmitter, outputMap, mapTextImage, drawLegend, calls,
                   files, steps>>

\* what one iteration of the read loop of loadReports makes of the three maps
\* rs = [reports, receivers, transmitters] when it reads rec
AddReport(rs, rec) ==
    LET t == ReportTransmitter(rec)
        r == ReportReceiver(rec)
        inner == IF t \in DOMAIN rs.reports THEN rs.reports[t] ELSE <<>>
    IN [reports |-> Put(rs.reports, t, Put(inner, r, rec[3])),
        receivers |-> rs.receivers \cup {r},
        transmitters |-> rs.transmitters \cup {t}]

\* one iteration of the read loop of loadReports on a file made of Records
LoadReportFrom(Records) ==
    /\ pc = "loadReports"
    /\ nread < MaxReports
    /\ \E rec \in Records :
        LET rs == AddReport([reports |-> reports, receivers |-> receivers,
                             transmitters |-> transmitters], rec)
        IN /\ record' = rec
           /\ reports' = rs.reports
           /\ receivers' = rs.receivers
           /\ transmitters' = rs.transmitters
    /\ nread' = nread + 1
    /\ UNCHANGED <<cfg, notices, pc, operators, todo, transmitter, outputMap,
                   mapTextImage, drawLegend, calls, files, steps>>

\* one iteration of the read loop of loadReports
LoadReport == LoadReportFrom(ReportRecords)

\* one iteration of the read loop of loadReports on a file with both spellings
LoadSpelledReport == LoadReportFrom(SpelledReportRecords)

\* io.EOF in loadReports: return to main
ReportsEOF ==
    /\ pc = "loadReports"
    /\ pc' = "selectCalls"
    /\ record' = <<>>
    /\ nread' = 0
    /\ UNCHANGED <<cfg, notices, operators, reports, receivers, transmitters, todo,
                   transmitter, outputMap, mapTextImage, drawLegend, calls,
                   files, steps>>

\* the elements of a sequence
Range(s) == {s[i] : i \in DOMAIN s}

\* the call signs main makes of cfg.CallSigns
FilterCalls == Split(RemoveSpaces(ToUpper(cfg.CallSigns)))

\* SelectedTransmitters as it would be if a call sign were taken without
\* looking it up among the transmitters
SelectedTransmittersUnchecked(ts) ==
    IF cfg.CallSigns # <<"A", "L", "L">>
    THEN Range(FilterCalls)
    ELSE ts

\* the transmitter set main goes on with after looking at cfg.CallSigns, ts
\* being the transmitters of the report file
SelectedTransmitters(ts) ==
    IF cfg.CallSigns # <<"A", "L", "L">>
    THEN {call \in Range(FilterCalls) : call \in ts}
    ELSE ts

\* fmt.Printf("Skipping %v: no reports\n", call)
SkipNotice(call) == "Skipping " \o Str(call) \o ": no reports"

\* what main prints while it goes through cfg.CallSigns, ts being the
\* transmitters of the report file
SkipNotices(ts) ==
    IF cfg.CallSigns # <<"A", "L", "L">>
    THEN LET skipped == SelectSeq(FilterCalls, LAMBDA call : call \notin ts)
         IN [i \in DOMAIN skipped |-> SkipNotice(skipped[i])]
    ELSE <<>>

\* main, from the CallSigns test to the head of the transmitter loop
SelectCalls ==
    /\ pc = "selectCalls"
    /\ transmitters' = SelectedTransmitters(transmitters)
    /\ todo' = SelectedTransmitters(transmitters)
    /\ notices' = SkipNotices(transmitters)
    /\ pc' = "loop"
    /\ UNCHANGED <<cfg, operators, reports, receivers, record, nread, transmitter,
                   outputMap, mapTextImage, drawLegend, calls, files, steps>>

---------------------------------------------------------------------------
(* newDrawLegend, plotLegend *)

\* int(FontSize*FontLineSpacing*FontDPI/72*k + 0.5)
LinePitch(k) ==
    IntHalfUp(cfg.FontSize.n * cfg.FontLineSpacing.n * cfg.FontDPI.n * k,
              cfg.FontSize.d * cfg.FontLineSpacing.d * cfg.FontDPI.d * 72)

\* the cursor newDrawLegend(textImagePtr, contextPtr) closes over
newDrawLegend(textImage) ==
    [cursorX |-> IntHalfUp(cfg.FontSize.n * 5, cfg.FontSize.d),
     cursorY |-> textImage.H - LinePitch(8)]

\* one draw call, as it is recorded in calls
Call(op, call, text, at, img) ==
    [op |-> op, call |-> call, text |-> text, at |-> at, img |-> img]

\* one iteration of the loop of the closure drawLegend, on a canvas
\* cv = [out, text, cursor, calls, panic]
drawLegendItem(cv, legend) ==
    LET cursor == <<cv.cursor.cursorX, cv.cursor.cursorY>>
    IN [cv EXCEPT
            !.text = DrawString(@, legend, cursor),
            !.calls = Append(@, Call("legend", <<>>, legend, cursor, NilImage)),
            !.cursor.cursorY = @ + LinePitch(1)]

\* the closure drawLegend(legendItems) on a canvas: each iteration works on
\* the canvas c the iteration before has left
RECURSIVE drawLegendItems(_, _)
drawLegendItems(cv, legendItems) ==
    IF legendItems = <<>> THEN cv
    ELSE TheOne({drawLegendItems(drawLegendItem(c, Head(legendItems)),
                                 Tail(legendItems)) : c \in {cv}})

\* plotLegendItems as it would be without the test of the antenna height
plotLegendItemsAnyHeight(t, opData) ==
    <<IF cfg.RcvMapFlag
      THEN <<"Receive Map (who can I hear) for " \o Str(t)>>
      ELSE <<"Transmission Map (who can hear me) for " \o Str(t)>>>>
    \o <<<<"Frequency: 146.535 MHz Simplex">>>>
    \o (IF opData.xmitPwr # -100
        THEN <<<<"Transmitter Power: " \o Fmt0(opData.xmitPwr) \o " Watts">>>>
        ELSE <<>>)
    \o (IF opData.antType # ""
        THEN <<<<"Antenna Type: " \o opData.antType>>>>
        ELSE <<>>)
    \o <<<<"Antenna Height: " \o Fmt0(opData.antHeight) \o " feet">>>>
    \o (IF opData.antGain # -100
        THEN <<<<"Antenna Est. Gain: " \o Fmt1(opData.antGain) \o " dBi">>>>
        ELSE <<>>)

\* plotLegendItems as it would be with the antenna height before the type
plotLegendItemsHeightFirst(t, opData) ==
    <<IF cfg.RcvMapFlag
      THEN <<"Receive Map (who can I hear) for " \o Str(t)>>
      ELSE <<"Transmission Map (who can hear me) for " \o Str(t)>>>>
    \o <<<<"Frequency: 146.535 MHz Simplex">>>>
    \o (IF opData.xmitPwr # -100
        THEN <<<<"Transmitter Power: " \o Fmt0(opData.xmitPwr) \o " Watts">>>>
        ELSE <<>>)
    \o (IF opData.antHeight # -100
        THEN <<<<"Antenna Height: " \o Fmt0(opData.antHeight) \o " feet">>>>
        ELSE <<>>)
    \o (IF opData.antType # ""
        THEN <<<<"Antenna Type: " \o opData.antType>>>>
        ELSE <<>>)
    \o (IF opData.antGain # -100
        THEN <<<<"Antenna Est. Gain: " \o Fmt1(opData.antGain) \o " dBi">>>>
        ELSE <<>>)

\* the argument lists of the drawLegend calls plotLegend makes, in order
plotLegendItems(t, opData) ==
    <<IF cfg.RcvMapFlag
      THEN <<"Receive Map (who can I hear) for " \o Str(t)>>
      ELSE <<"Transmission Map (who can hear me) for " \o Str(t)>>>>
    \o <<<<"Frequency: 146.535 MHz Simplex">>>>
    \o (IF opData.xmitPwr # -100
        THEN <<<<"Transmitter Power: " \o Fmt0(opData.xmitPwr) \o " Watts">>>>
        ELSE <<>>)
    \o (IF opData.antType # ""
        THEN <<<<"Antenna Type: " \o opData.antType>>>>
        ELSE <<>>)
    \o (IF opData.antHeight # -100
        THEN <<<<"Antenna Height: " \o Fmt0(opData.antHeight) \o " feet">>>>
        ELSE <<>>)
    \o (IF opData.antGain # -100
        THEN <<<<"Antenna Est. Gain: " \o Fmt1(opData.antGain) \o " dBi">>>>
        ELSE <<>>)

\* plotLegend(transmitter, opData) on a canvas
RECURSIVE drawLegendCalls(_, _)
drawLegendCalls(cv, argLists) ==
    IF argLists = <<>> THEN cv
    ELSE TheOne({drawLegendCalls(drawLegendItems(c, Head(argLists)),
                                 Tail(argLists)) : c \in {cv}})

plotLegend(cv, t, opData) == drawLegendCalls(cv, plotLegendItems(t, opData))

---------------------------------------------------------------------------
(* plotIcon *)

\* IconOffset as it would be if the icon hung from the operator's pixel by
\* its top-left corner
IconOffsetCorner(icon, operator) == operator.pixel

\* where plotIcon puts the top-left corner of the icon
IconOffset(icon, operator) ==
    <<operator.pixel[1] - Trunc(icon.W, 2), operator.pixel[2] - Trunc(icon.H, 2)>>

\* LabelPoint as it would be without the font size in the offset
LabelPointHalfWidth(icon, operator) ==
    <<operator.pixel[1] + Trunc(icon.W, 2),
      operator.pixel[2]
        + IntHalfUp(cfg.FontSize.n * cfg.FontDPI.n,
                    cfg.FontSize.d * cfg.FontDPI.d * 72 * 2)>>

\* where plotIcon puts the origin of the label
LabelPoint(icon, operator) ==
    <<operator.pixel[1]
        + Trunc(icon.W + Trunc(cfg.FontSize.n, cfg.FontSize.d), 2),
      operator.pixel[2]
        + IntHalfUp(cfg.FontSize.n * cfg.FontDPI.n,
                    cfg.FontSize.d * cfg.FontDPI.d * 72 * 2)>>

\* plotIcon as it would be if the label were drawn onto the map itself, where
\* a later icon can cover it
plotIconLabelOnMap(cv, icon, operator) ==
    IF cv.panic \/ operator.callsign = <<>> THEN cv
    ELSE IF icon = NilImage THEN [cv EXCEPT !.panic = TRUE]
    ELSE [cv EXCEPT
            !.out = DrawString(DrawOver(@, icon, IconOffset(icon, operator)),
                               Str(operator.callsign), LabelPoint(icon, operator)),
            !.calls = @ \o <<Call("blit", operator.callsign, "",
                                  IconOffset(icon, operator), icon),
                             Call("label", operator.callsign,
                                  Str(operator.callsign),
                                  LabelPoint(icon, operator), NilImage)>>]

\* plotIcon(mapPtr, icon, operator, contextPtr) on a canvas; icon.Bounds() on
\* a nil image is a nil dereference
plotIcon(cv, icon, operator) ==
    IF cv.panic \/ operator.callsign = <<>> THEN cv
    ELSE IF icon = NilImage THEN [cv EXCEPT !.panic = TRUE]
    ELSE [cv EXCEPT
            !.out = DrawOver(@, icon, IconOffset(icon, operator)),
            !.text = DrawString(@, Str(operator.callsign), LabelPoint(icon, operator)),
            !.calls = @ \o <<Call("blit", operator.callsign, "",
                                  IconOffset(icon, operator), icon),
                             Call("label", operator.callsign,
                                  Str(operator.callsign),
                                  LabelPoint(icon, operator), NilImage)>>]

---------------------------------------------------------------------------
(* main: the transmitter loop *)

\* the two layers, the legend cursor and the call log, as one value
Canvas ==
    [out |-> outputMap, text |-> mapTextImage, cursor |-> drawLegend,
     calls |-> calls, panic |-> FALSE]

\* the orders in which a range loop can visit the keys of a Go map
Orders(S) ==
    {o \in [1 .. Cardinality(S) -> S] : \A i, j \in DOMAIN o : i # j => o[i] # o[j]}

\* ReceiverPlotted as it would be without the test transmitter == receiver
ReceiverPlottedAlsoSelf(t, r) ==
    /\ ReportOf(t, r) # ""
    /\ ReportOf(t, r) \in DOMAIN icons

\* ReceiverPlotted as it would be without the test that the icon is present
ReceiverPlottedAnyIcon(t, r) ==
    /\ t # r
    /\ ReportOf(t, r) # ""

\* whether the receiver loop calls plotIcon for receiver r on t's map
ReceiverPlotted(t, r) ==
    /\ t # r
    /\ ReportOf(t, r) # ""
    /\ ReportOf(t, r) \in DOMAIN icons

\* the body of the receiver loop, for the receivers in the order visited
RECURSIVE plotReceivers(_, _, _)
plotReceivers(cv, t, order) ==
    IF order = <<>> THEN cv
    ELSE LET receiver == Head(order)
         IN plotReceivers(
                IF ReceiverPlotted(t, receiver)
                THEN plotIcon(cv, IconOf(ReportOf(t, receiver)), OperatorOf(receiver))
                ELSE cv,
                t, Tail(order))

\* OutputFile as it would be with the two suffixes taken the wrong way round
OutputFileSwapped(t) ==
    IF cfg.RcvMapFlag
    THEN cfg.OutputDirectory \o "/" \o Str(t) \o "-xmit-map" \o ".png"
    ELSE cfg.OutputDirectory \o "/" \o Str(t) \o "-rcvr-map" \o ".png"

\* the name of the file main writes the map of transmitter t to
OutputFile(t) ==
    IF cfg.RcvMapFlag
    THEN cfg.OutputDirectory \o "/" \o Str(t) \o "-rcvr-map" \o ".png"
    ELSE cfg.OutputDirectory \o "/" \o Str(t) \o "-xmit-map" \o ".png"

\* what is in a file that os.Create made and png.Encode did not fill
PartialFile == [W |-> 0, H |-> 0, Pix |-> <<>>]

\* Fatal as it would be if the failure were noticed after the file was made
FatalAfterCreate ==
    /\ pc' = "Fatal"
    /\ files' = Put(files, OutputFile(transmitter), PartialFile)
    /\ UNCHANGED <<cfg, notices, operators, reports, receivers, transmitters,
                   record, nread, todo, transmitter, outputMap, mapTextImage,
                   drawLegend, calls, steps>>

\* log.Fatalln / log.Fatalf: the process exits
Fatal ==
    /\ pc' = "Fatal"
    /\ UNCHANGED <<cfg, notices, operators, reports, receivers, transmitters, record, nread,
                   todo, transmitter, outputMap, mapTextImage, drawLegend, calls,
                   files, steps>>

\* Reset as it would be if the legend closure of the map before were kept
ResetKeepsCursor ==
    /\ pc = "loop"
    /\ \E t \in todo :
        /\ transmitter' = t
        /\ todo' = todo \ {t}
        /\ steps' = Append(steps, <<"Reset", t>>)
    /\ outputMap' = DrawSrc(outputMap, baseMap)
    /\ mapTextImage' = DrawSrc(mapTextImage, TransparentImage)
    /\ drawLegend' = IF transmitter = <<>> THEN newDrawLegend(mapTextImage)
                     ELSE drawLegend
    /\ calls' = <<>>
    /\ pc' = "PlotReceivers"
    /\ UNCHANGED <<cfg, notices, operators, reports, receivers, transmitters, record, nread,
                   files>>

\* Reset as it would be if the text layer were not cleared
ResetKeepsText ==
    /\ pc = "loop"
    /\ \E t \in todo :
        /\ transmitter' = t
        /\ todo' = todo \ {t}
        /\ steps' = Append(steps, <<"Reset", t>>)
    /\ outputMap' = DrawSrc(outputMap, baseMap)
    /\ drawLegend' = newDrawLegend(mapTextImage)
    /\ calls' = <<>>
    /\ pc' = "PlotReceivers"
    /\ UNCHANGED <<cfg, notices, operators, reports, receivers, transmitters, record, nread,
                   files, mapTextImage>>

\* head of the loop with a transmitter left: reset both layers to their base
\* images and make a new legend closure
Reset ==
    /\ pc = "loop"
    /\ \E t \in todo :
        /\ transmitter' = t
        /\ todo' = todo \ {t}
        /\ steps' = Append(steps, <<"Reset", t>>)
    /\ outputMap' = DrawSrc(outputMap, baseMap)
    /\ mapTextImage' = DrawSrc(mapTextImage, TransparentImage)
    /\ drawLegend' = newDrawLegend(mapTextImage)
    /\ calls' = <<>>
    /\ pc' = "PlotReceivers"
    /\ UNCHANGED <<cfg, notices, operators, reports, receivers, transmitters, record, nread,
                   files>>

\* the receiver loop when no DrawString fails
PlotReceiversStep ==
    /\ pc = "PlotReceivers"
    /\ \E order \in Orders(receivers) :
        LET cv == plotReceivers(Canvas, transmitter, order)
        IN \/ /\ ~cv.panic
              /\ outputMap' = cv.out
              /\ mapTextImage' = cv.text
              /\ calls' = cv.calls
              /\ steps' = Append(steps, <<"PlotReceivers", transmitter>>)
              /\ pc' = "PlotTransmitter"
              /\ UNCHANGED <<cfg, notices, operators, reports, receivers,
                             transmitters, record, nread, todo, transmitter,
                             drawLegend, files>>
           \/ /\ cv.panic
              /\ pc' = "Panic"
              /\ UNCHANGED <<cfg, notices, operators, reports, receivers,
                             transmitters, record, nread, todo, transmitter,
                             outputMap, mapTextImage, drawLegend, calls, files,
                             steps>>

\* the receiver loop; a DrawString error of a label is fatal
PlotReceivers ==
    \/ PlotReceiversStep
    \/ /\ pc = "PlotReceivers"
       /\ \E r \in receivers :
            /\ ReceiverPlotted(transmitter, r)
            /\ OperatorOf(r).callsign # <<>>
       /\ Fatal

\* PlotTransmitter as it would be if the receivers were plotted over the
\* transmitter instead of under it
PlotTransmitterBelow ==
    /\ pc = "PlotTransmitter"
    /\ \E order \in Orders(receivers) :
        LET cv == plotReceivers(
                    plotIcon([Canvas EXCEPT !.out = DrawSrc(@, baseMap),
                                            !.text = DrawSrc(@, TransparentImage),
                                            !.calls = <<>>],
                             IconOf(cfg.TransIcon), OperatorOf(transmitter)),
                    transmitter, order)
        IN /\ outputMap' = cv.out
           /\ mapTextImage' = cv.text
           /\ calls' = cv.calls
    /\ steps' = Append(steps, <<"PlotTransmitter", transmitter>>)
    /\ pc' = "PlotLegend"
    /\ UNCHANGED <<cfg, notices, operators, reports, receivers, transmitters,
                   record, nread, todo, transmitter, drawLegend, files>>

\* PlotTransmitterStep as it would be if a transmitter that is also a
\* receiver were left to the receiver loop
PlotTransmitterUnlessReceiver ==
    /\ pc = "PlotTransmitter"
    /\ LET cv == IF transmitter \in receivers THEN Canvas
                 ELSE plotIcon(Canvas, IconOf(cfg.TransIcon), OperatorOf(transmitter))
       IN \/ /\ ~cv.panic
             /\ outputMap' = cv.out
             /\ mapTextImage' = cv.text
             /\ calls' = cv.calls
             /\ steps' = Append(steps, <<"PlotTransmitter", transmitter>>)
             /\ pc' = "PlotLegend"
             /\ UNCHANGED <<cfg, notices, operators, reports, receivers,
                            transmitters, record, nread, todo, transmitter,
                            drawLegend, files>>
          \/ /\ cv.panic
             /\ pc' = "Panic"
             /\ UNCHANGED <<cfg, notices, operators, reports, receivers,
                            transmitters, record, nread, todo, transmitter,
                            outputMap, mapTextImage, drawLegend, calls, files,
                            steps>>

\* the transmitter's own icon and label when DrawString does not fail
PlotTransmitterStep ==
    /\ pc = "PlotTransmitter"
    /\ LET cv == plotIcon(Canvas, IconOf(cfg.TransIcon), OperatorOf(transmitter))
       IN \/ /\ ~cv.panic
             /\ outputMap' = cv.out
             /\ mapTextImage' = cv.text
             /\ calls' = cv.calls
             /\ steps' = Append(steps, <<"PlotTransmitter", transmitter>>)
             /\ pc' = "PlotLegend"
             /\ UNCHANGED <<cfg, notices, operators, reports, receivers,
                            transmitters, record, nread, todo, transmitter,
                            drawLegend, files>>
          \/ /\ cv.panic
             /\ pc' = "Panic"
             /\ UNCHANGED <<cfg, notices, operators, reports, receivers,
                            transmitters, record, nread, todo, transmitter,
                            outputMap, mapTextImage, drawLegend, calls, files,
                            steps>>

\* the transmitter's own icon and label; a DrawString error of the label is
\* fatal
PlotTransmitter ==
    \/ PlotTransmitterStep
    \/ /\ pc = "PlotTransmitter"
       /\ IconOf(cfg.TransIcon) # NilImage
       /\ OperatorOf(transmitter).callsign # <<>>
       /\ Fatal

\* plotLegend(transmitter, operators[transmitter]) when no DrawString fails
PlotLegendStep ==
    /\ pc = "PlotLegend"
    /\ LET cv == plotLegend(Canvas, transmitter, OperatorOf(transmitter))
       IN /\ mapTextImage' = cv.text
          /\ drawLegend' = cv.cursor
          /\ calls' = cv.calls
    /\ steps' = Append(steps, <<"PlotLegend", transmitter>>)
    /\ pc' = "Merge"
    /\ UNCHANGED <<cfg, notices, operators, reports, receivers, transmitters,
                   record, nread, todo, transmitter, outputMap, files>>

\* plotLegend(transmitter, operators[transmitter]); a DrawString error is fatal
PlotLegend ==
    \/ PlotLegendStep
    \/ /\ pc = "PlotLegend"
       /\ Fatal

\* Merge as it would be with the two layers the other way round
MergeUnder ==
    /\ pc = "Merge"
    /\ outputMap' = DrawOver(mapTextImage, outputMap, <<0, 0>>)
    /\ calls' = Append(calls, Call("merge", <<>>, "", <<0, 0>>, NilImage))
    /\ steps' = Append(steps, <<"Merge", transmitter>>)
    /\ pc' = "Write"
    /\ UNCHANGED <<cfg, notices, operators, reports, receivers, transmitters, record, nread,
                   todo, transmitter, mapTextImage, drawLegend, files>>

\* merge the text layer onto the main map
Merge ==
    /\ pc = "Merge"
    /\ outputMap' = DrawOver(outputMap, mapTextImage, <<0, 0>>)
    /\ calls' = Append(calls, Call("merge", <<>>, "", <<0, 0>>, NilImage))
    /\ steps' = Append(steps, <<"Merge", transmitter>>)
    /\ pc' = "Write"
    /\ UNCHANGED <<cfg, notices, operators, reports, receivers, transmitters, record, nread,
                   todo, transmitter, mapTextImage, drawLegend, files>>

\* os.Create, png.Encode, f.Close when the file can be created; the result of
\* Encode is not looked at
WriteStep ==
    /\ pc = "Write"
    /\ \E encoded \in BOOLEAN :
        files' = Put(files, OutputFile(transmitter),
                     IF encoded THEN outputMap ELSE PartialFile)
    /\ steps' = Append(steps, <<"Write", transmitter>>)
    /\ pc' = "loop"
    /\ UNCHANGED <<cfg, notices, operators, reports, receivers, transmitters,
                   record, nread, todo, transmitter, outputMap, mapTextImage,
                   drawLegend, calls>>

\* os.Create, png.Encode, f.Close: a failed Create is fatal
Write ==
    \/ WriteStep
    \/ /\ pc = "Write"
       /\ Fatal

\* Finish as it would be if the loop could end with transmitters left
FinishEarly ==
    /\ pc = "loop"
    /\ pc' = "Done"
    /\ steps' = Append(steps, <<"Done", <<>>>>)
    /\ UNCHANGED <<cfg, notices, operators, reports, receivers, transmitters, record, nread,
                   todo, transmitter, outputMap, mapTextImage, drawLegend, calls,
                   files>>

\* the loop is over: "Map generation completed!"
Finish ==
    /\ pc = "loop"
    /\ todo = {}
    /\ pc' = "Done"
    /\ steps' = Append(steps, <<"Done", <<>>>>)
    /\ UNCHANGED <<cfg, notices, operators, reports, receivers, transmitters, record, nread,
                   todo, transmitter, outputMap, mapTextImage, drawLegend, calls,
                   files>>

Next ==
    \/ LoadOperator
    \/ OperatorsEOF
    \/ LoadReport
    \/ ReportsEOF
    \/ SelectCalls
    \/ Reset
    \/ PlotReceivers
    \/ PlotTransmitter
    \/ PlotLegend
    \/ Merge
    \/ Write
    \/ Finish

Spec == Init /\ [][Next]_vars

\* the same run on a report file with both spellings of "b"
NextSpelled ==
    \/ LoadOperator
    \/ OperatorsEOF
    \/ LoadSpelledReport
    \/ ReportsEOF
    \/ SelectCalls
    \/ Reset
    \/ PlotReceivers
    \/ PlotTransmitter
    \/ PlotLegend
    \/ Merge
    \/ Write
    \/ Finish

SpecSpelled == Init /\ [][NextSpelled]_vars

---------------------------------------------------------------------------
(* The run in an environment without failures: every glyph can be drawn and  *)
(* every file can be created.  The files read are finite and main is one     *)
(* sequential process, so a step that can be taken is taken.                 *)

\* loadOperators on the operator file of a survey, for each map file and
\* pair of corners
InitProjector ==
    /\ cfg \in SurveyConfigs
    /\ Start

LoadSurveyOperator == LoadOperatorFrom(SurveyRecords)

NextProjector == LoadSurveyOperator

SpecProjector == InitProjector /\ [][NextProjector]_vars

\* receive maps of every transmitter, the icon of the transmitter being in
\* the icon directory
InitData ==
    /\ Init
    /\ cfg.TransIcon \in DOMAIN icons
    /\ cfg.RcvMapFlag
    /\ cfg.CallSigns = <<"A", "L", "L">>

\* the steps that bring main forward
Progress ==
    \/ OperatorsEOF
    \/ ReportsEOF
    \/ SelectCalls
    \/ Reset
    \/ PlotReceiversStep
    \/ PlotTransmitterStep
    \/ PlotLegendStep
    \/ Merge
    \/ WriteStep
    \/ Finish

NextData ==
    \/ LoadOperator
    \/ LoadReport
    \/ Progress

SpecData == InitData /\ [][NextData]_vars /\ WF_vars(Progress)

---------------------------------------------------------------------------
(* A failure-free run on the files of three stations next to each other.     *)

LoadCrowdedOperator == LoadOperatorFrom(CrowdedOperatorRecords)

LoadCrowdedReport == LoadReportFrom(CrowdedReportRecords)

NextCrowded ==
    \/ LoadCrowdedOperator
    \/ LoadCrowdedReport
    \/ Progress

SpecCrowded == InitData /\ [][NextCrowded]_vars

---------------------------------------------------------------------------
(* A failure-free run under a configuration whose south-east corner is not   *)
(* south and east of its north-west corner.                                   *)

InitMalformed ==
    /\ cfg \in MalformedConfigs
    /\ Start

SpecMalformed == InitMalformed /\ [][NextCrowded]_vars

---------------------------------------------------------------------------
(* A failure-free run at 120 dpi.                                             *)

InitCoarse ==
    /\ cfg \in CoarseConfigs
    /\ Start

SpecCoarse == InitCoarse /\ [][NextCrowded]_vars

---------------------------------------------------------------------------
(* A failure-free run on files with a hyphenated call sign.                   *)

LoadHyphenOperator == LoadOperatorFrom(HyphenOperatorRecords)

LoadHyphenReport == LoadReportFrom(HyphenReportRecords)

NextHyphen ==
    \/ LoadHyphenOperator
    \/ LoadHyphenReport
    \/ Progress

SpecHyphen == InitData /\ [][NextHyphen]_vars

---------------------------------------------------------------------------
(* plotIcon on its own: one call on the layers as the reset leaves them, for *)
(* an icon of any size and a station of the operator file.                   *)

InitIcon ==
    /\ cfg \in FontConfigs
    /\ Start

\* plotIcon(outputMapPtr, icon, operators[call], textCtxPtr) right after the
\* reset of the layers
PlotSampleIcon ==
    /\ pc = "loadOperators"
    /\ \E icon \in SampleIcons : \E call \in DOMAIN operators :
        LET cv == plotIcon([Canvas EXCEPT !.out = DrawSrc(@, baseMap),
                                         !.text = DrawSrc(@, TransparentImage),
                                         !.calls = <<>>],
                           icon, operators[call])
        IN /\ outputMap' = cv.out
           /\ mapTextImage' = cv.text
           /\ calls' = cv.calls
    /\ pc' = "Plotted"
    /\ UNCHANGED <<cfg, notices, operators, reports, receivers, transmitters,
                   record, nread, todo, transmitter, drawLegend, files, steps>>

NextIcon ==
    \/ LoadCrowdedOperator
    \/ PlotSampleIcon

SpecIcon == InitIcon /\ [][NextIcon]_vars

---------------------------------------------------------------------------
(* The reset of the two layers followed at once by their merge, in the loop  *)
(* of a failure-free run.                                                     *)

\* the merge of the text layer (reception.go:173) made right after the reset
\* (lines 146-148), with none of the plotting calls in between
MergeAfterReset ==
    /\ pc = "PlotReceivers"
    /\ outputMap' = DrawOver(outputMap, mapTextImage, <<0, 0>>)
    /\ calls' = Append(calls, Call("merge", <<>>, "", <<0, 0>>, NilImage))
    /\ steps' = Append(steps, <<"Merge", transmitter>>)
    /\ pc' = "Write"
    /\ UNCHANGED <<cfg, notices, operators, reports, receivers, transmitters,
                   record, nread, todo, transmitter, mapTextImage, drawLegend,
                   files>>

NextBlank ==
    \/ LoadOperator
    \/ LoadReport
    \/ Progress
    \/ MergeAfterReset

SpecBlank == InitData /\ [][NextBlank]_vars

---------------------------------------------------------------------------
(* The transmitter loop on its own, entered with one transmitter whose       *)
(* operator record takes every combination of known and unknown attributes.  *)

\* operator records for "A": each attribute known or unknown
LegendRecords ==
    {<<<<"A">>, 5, 1, p, a, g, h>> :
        p \in {-100, 0, 5}, a \in {"", "Yagi"}, g \in {-100, 2}, h \in {-100, 30}}

\* the state main enters the loop in when the operator file holds at most one
\* record for "A" and the second record for "b", and the report file the one
\* report of "b" on "A"
InitLegend ==
    /\ cfg \in Configs
    /\ pc = "loop"
    /\ \E bRec \in {rec \in OperatorRecords : rec[2] = 2} :
        operators \in
            {Put(<<>>, OperatorData(bRec).callsign, OperatorData(bRec))}
            \cup {Put(Put(<<>>, OperatorData(bRec).callsign, OperatorData(bRec)),
                      OperatorData(rec).callsign, OperatorData(rec)) :
                    rec \in LegendRecords}
    /\ LET rec == IF cfg.RcvMapFlag THEN <<<<"A">>, <<"b">>, "Good">>
                  ELSE <<<<"b">>, <<"A">>, "Good">>
           rs == AddReport([reports |-> <<>>, receivers |-> {},
                            transmitters |-> {}], rec)
       IN /\ reports = rs.reports
          /\ receivers = rs.receivers
          /\ transmitters = SelectedTransmitters(rs.transmitters)
          /\ todo = SelectedTransmitters(rs.transmitters)
          /\ notices = SkipNotices(rs.transmitters)
    /\ record = <<>>
    /\ nread = 0
    /\ transmitter = <<>>
    /\ outputMap = TransparentImage
    /\ mapTextImage = TransparentImage
    /\ drawLegend = [cursorX |-> 0, cursorY |-> 0]
    /\ calls = <<>>
    /\ files = <<>>
    /\ steps = <<>>

NextLoop ==
    \/ Reset
    \/ PlotReceivers
    \/ PlotTransmitter
    \/ PlotLegend
    \/ Merge
    \/ Write
    \/ Finish

SpecLegend == InitLegend /\ [][NextLoop]_vars

---------------------------------------------------------------------------
(* Properties *)

\* the steps of one transmitter, in order
StepNames ==
    <<"Reset", "PlotReceivers", "PlotTransmitter", "PlotLegend", "Merge", "Write">>

\* the positions of the calls of kind op made for call sign c on this map
CallsFor(op, c) == {i \in DOMAIN calls : calls[i].op = op /\ calls[i].call = c}

\* the positions of the calls of kind op on this map
CallsOf(op) == {i \in DOMAIN calls : calls[i].op = op}

\* C1: the steps taken are, transmitter after transmitter, Reset, PlotReceivers,
\* PlotTransmitter, PlotLegend, Merge, Write, every step of a block for the
\* transmitter of its Reset, no step twice for one transmitter, a block begun
\* only when the block before it is complete; Done is the last step and is
\* taken when every selected transmitter has had its six steps.
C1_StepOrder ==
    /\ \A i \in DOMAIN steps :
        IF steps[i][1] = "Done"
        THEN i = Len(steps) /\ pc = "Done"
        ELSE /\ steps[i][1] = StepNames[((i - 1) % 6) + 1]
             /\ steps[i][2] = steps[i - ((i - 1) % 6)][2]
             /\ steps[i][2] \in transmitters
    /\ \A i, j \in DOMAIN steps : steps[i] = steps[j] => i = j
    /\ pc = "Done" =>
        /\ steps[Len(steps)] = <<"Done", <<>>>>
        /\ Len(steps) = 6 * Cardinality(transmitters) + 1
        /\ \A t \in transmitters : \E i \in DOMAIN steps : steps[i] = <<"Write", t>>

\* a run of two transmitters has come to its end
C1_Witness == pc = "Done" /\ Len(steps) = 13

\* the raster that the calls logged for this map produce from the base map
RECURSIVE ReplayCalls(_, _)
ReplayCalls(cv, cs) ==
    IF cs = <<>> THEN cv
    ELSE LET c == Head(cs)
         IN ReplayCalls(
                CASE c.op = "blit" -> [cv EXCEPT !.out = DrawOver(@, c.img, c.at)]
                  [] c.op \in {"label", "legend"} ->
                        [cv EXCEPT !.text = DrawString(@, c.text, c.at)]
                  [] OTHER -> [cv EXCEPT !.out = DrawOver(@, cv.text, <<0, 0>>)],
                Tail(cs))

\* C2: when a transmitter's iteration starts drawing, the output raster equals
\* the base map and the text layer is transparent at every pixel; and the map
\* written for a transmitter is the base map with the drawings of that
\* transmitter's iteration alone.
C2_ResetClean ==
    /\ pc = "PlotReceivers" =>
        /\ outputMap.Pix = baseMap.Pix
        /\ \A p \in Points(mapTextImage) : At(mapTextImage, p) = Transparent
    /\ (pc = "loop" /\ transmitter # <<>>
            /\ files[OutputFile(transmitter)] # PartialFile) =>
        files[OutputFile(transmitter)] =
            ReplayCalls([out |-> baseMap, text |-> TransparentImage], calls).out

\* the second iteration starts after a first map with an icon on it was written
C2_Witness ==
    /\ pc = "PlotReceivers"
    /\ Len(steps) = 7
    /\ \E f \in DOMAIN files :
        /\ files[f] # PartialFile
        /\ \E p \in Points(files[f]) : At(files[f], p) = <<100, 255>>

\* C3: after the receiver loop of T's map, a call sign R has exactly one icon
\* blit (of the icon of its category) and one label if R is not T, the report
\* of (T, R) is not empty, the catalog has the category and R has an operator
\* record; otherwise it has neither; and nothing else has been drawn.
C3_ReceiverDrawn ==
    pc = "PlotTransmitter" =>
        LET Drawn(R) ==
                /\ R # transmitter
                /\ ReportOf(transmitter, R) # ""
                /\ ReportOf(transmitter, R) \in DOMAIN icons
                /\ R \in DOMAIN operators
                /\ R # <<>>
            All == receivers \cup transmitters \cup DOMAIN operators
        IN /\ \A R \in All :
                IF Drawn(R)
                THEN /\ Cardinality(CallsFor("blit", R)) = 1
                     /\ Cardinality(CallsFor("label", R)) = 1
                     /\ \A i \in CallsFor("blit", R) :
                            calls[i].img = icons[ReportOf(transmitter, R)]
                ELSE CallsFor("blit", R) = {} /\ CallsFor("label", R) = {}
           /\ Len(calls) = 2 * Cardinality({R \in All : Drawn(R)})
           /\ {R \in All : Drawn(R)} = {} =>
                /\ outputMap.Pix = baseMap.Pix
                /\ mapTextImage.Pix = TransparentImage.Pix

\* a receiver has been drawn
C3_Witness == pc = "PlotTransmitter" /\ CallsOf("blit") # {}

\* C4: a transmitter that has an operator record has its icon blitted after
\* every other icon of its map and no icon is blitted after it; before the
\* merge the output raster shows the transmitter icon wherever that icon is
\* opaque.
C4_TransmitterOnTop ==
    /\ \A i, j \in CallsOf("blit") : calls[i].call = transmitter => j <= i
    /\ (pc \in {"PlotLegend", "Merge"} /\ transmitter \in DOMAIN operators) =>
        LET icon == icons[cfg.TransIcon]
            px == operators[transmitter].pixel
            off == <<px[1] - (icon.W \div 2), px[2] - (icon.H \div 2)>>
        IN /\ \E i \in CallsFor("blit", transmitter) :
                calls[i].img = icon /\ calls[i].at = off
           /\ \A p \in Points(outputMap) :
                LET q == <<p[1] - off[1], p[2] - off[2]>>
                IN (q \in Points(icon) /\ At(icon, q)[2] = 255) =>
                        At(outputMap, p) = At(icon, q)

\* a receiver's icon lies at the very place of the transmitter's
C4_Witness ==
    /\ pc = "Merge"
    /\ \E i \in CallsFor("blit", transmitter) :
        \E j \in CallsOf("blit") :
            calls[j].call # transmitter /\ calls[j].at = calls[i].at

\* C5: the merge is the last call of a map and the only merge, it comes before
\* the write, and in the raster that is written every pixel where the text
\* layer is opaque has the text colour.
C5_TextMergedLast ==
    /\ pc \in {"PlotReceivers", "PlotTransmitter", "PlotLegend", "Merge"} =>
        CallsOf("merge") = {}
    /\ (pc = "Write" \/ (pc = "loop" /\ transmitter # <<>>)) =>
        /\ CallsOf("merge") = {Len(calls)}
        /\ \A p \in Points(mapTextImage) :
            At(mapTextImage, p)[2] = 255 => At(outputMap, p) = TextColor
    /\ (pc = "loop" /\ transmitter # <<>>) =>
        files[OutputFile(transmitter)] \in {outputMap, PartialFile}

\* text lies on a pixel of an icon
C5_Witness ==
    /\ pc = "Write"
    /\ \E p \in Points(mapTextImage) :
        /\ At(mapTextImage, p)[2] = 255
        /\ \E i \in CallsOf("blit") :
            <<p[1] - calls[i].at[1], p[2] - calls[i].at[2]>> \in Points(calls[i].img)

\* the texts of the legend lines drawn on this map, in the order drawn
RECURSIVE LegendTexts(_)
LegendTexts(cs) ==
    IF cs = <<>> THEN <<>>
    ELSE (IF Head(cs).op = "legend" THEN <<Head(cs).text>> ELSE <<>>)
         \o LegendTexts(Tail(cs))

\* the numbers an attribute of an operator record can hold in this model
AttrValues == {-100, 0, 2, 5, 10, 30}

\* the legend lines for a power, an antenna type, a height, a gain
PowerLine(v) == "Transmitter Power: " \o ToString(v) \o " Watts"

TypeLine(a) == "Antenna Type: " \o a

HeightLine(v) == "Antenna Height: " \o ToString(v) \o " feet"

GainLine(v) == "Antenna Est. Gain: " \o ToString(v) \o ".0 dBi"

PowerLines == {PowerLine(v) : v \in AttrValues}

TypeLines == {TypeLine(a) : a \in {"", "Yagi"}}

HeightLines == {HeightLine(v) : v \in AttrValues}

GainLines == {GainLine(v) : v \in AttrValues}

\* the legend of this map has been drawn
LegendDrawn == pc \in {"Merge", "Write"} \/ (pc = "loop" /\ transmitter # <<>>)

\* C6: the legend has a power line exactly if the xmitPwr handed to plotLegend
\* is not -100, and then the line of that value; likewise the antenna type
\* line and the empty string, the height line and -100, the gain line and -100.
C6_NoSentinelLine ==
    LegendDrawn =>
        LET opData == OperatorOf(transmitter)
            L == Range(LegendTexts(calls))
        IN /\ L \cap PowerLines =
                IF opData.xmitPwr = -100 THEN {} ELSE {PowerLine(opData.xmitPwr)}
           /\ L \cap TypeLines =
                IF opData.antType = "" THEN {} ELSE {TypeLine(opData.antType)}
           /\ L \cap HeightLines =
                IF opData.antHeight = -100 THEN {}
                ELSE {HeightLine(opData.antHeight)}
           /\ L \cap GainLines =
                IF opData.antGain = -100 THEN {} ELSE {GainLine(opData.antGain)}

\* a legend of a transmitter with unknown power and height and a known gain
C6_Witness ==
    /\ pc = "Merge"
    /\ OperatorOf(transmitter).xmitPwr = -100
    /\ OperatorOf(transmitter).antHeight = -100
    /\ OperatorOf(transmitter).antGain = 2
    /\ Len(LegendTexts(calls)) \in {3, 4}

\* C7: every power, antenna type, height or gain line of a legend shows the
\* value that the operator record of the map's transmitter holds, so there is
\* such a record.
C7_OnlySuppliedValues ==
    LegendDrawn =>
        \A line \in Range(LegendTexts(calls)) :
            line \in PowerLines \cup TypeLines \cup HeightLines \cup GainLines =>
                /\ transmitter \in DOMAIN operators
                /\ line \in {PowerLine(operators[transmitter].xmitPwr),
                             TypeLine(operators[transmitter].antType),
                             HeightLine(operators[transmitter].antHeight),
                             GainLine(operators[transmitter].antGain)}

\* the place of a legend line in the fixed order, 0 for any other text
Rank(line) ==
    CASE line \in PowerLines -> 3
      [] line \in TypeLines -> 4
      [] line \in HeightLines -> 5
      [] line \in GainLines -> 6
      [] OTHER -> 0

\* C8: the first legend line is the title, in the receive wording if
\* RcvMapFlag is set and in the transmit wording if not, with the map's
\* transmitter; the second is the frequency line; the lines after it are
\* attribute lines in the order power, antenna type, height, gain.
C8_LegendOrder ==
    LegendDrawn =>
        LET L == LegendTexts(calls)
        IN /\ Len(L) >= 2
           /\ L[1] = (IF cfg.RcvMapFlag THEN "Receive Map (who can I hear) for "
                      ELSE "Transmission Map (who can hear me) for ")
                     \o Str(transmitter)
           /\ L[2] = "Frequency: 146.535 MHz Simplex"
           /\ \A i \in 3 .. Len(L) : Rank(L[i]) >= 3
           /\ \A i, j \in 3 .. Len(L) : i < j => Rank(L[i]) < Rank(L[j])

\* a legend with power, height and gain and without the antenna type
C8_Witness ==
    /\ pc = "Merge"
    /\ Len(LegendTexts(calls)) = 5
    /\ OperatorOf(transmitter).antType = ""

\* the file name the map of transmitter t is to have
MapName(t) ==
    cfg.OutputDirectory \o "/" \o Str(t)
        \o (IF cfg.RcvMapFlag THEN "-rcvr-map.png" ELSE "-xmit-map.png")

\* C9: every file of the output directory is the map file of a selected
\* transmitter; a completed run has made one file for every selected
\* transmitter, as many files as transmitters, and has written each once.
C9_OneFilePerTransmitter ==
    /\ DOMAIN files \subseteq {MapName(t) : t \in transmitters}
    /\ pc = "Done" =>
        /\ DOMAIN files = {MapName(t) : t \in transmitters}
        /\ Cardinality(DOMAIN files) = Cardinality(transmitters)
        /\ \A t \in transmitters :
            Cardinality({i \in DOMAIN steps : steps[i] = <<"Write", t>>}) = 1

\* a completed run of two transmitters
C9_Witness == pc = "Done" /\ Cardinality(DOMAIN files) = 2

\* C10: a report record read in transmit-map mode is filed under its first
\* field as transmitter with its second field as receiver, and in receive-map
\* mode the other way round.
C10_TransmitterFirst ==
    (pc = "loadReports" /\ record # <<>>) =>
        LET t == IF cfg.RcvMapFlag THEN ToUpper(record[2]) ELSE ToUpper(record[1])
            r == IF cfg.RcvMapFlag THEN ToUpper(record[1]) ELSE ToUpper(record[2])
        IN /\ t \in transmitters
           /\ r \in receivers
           /\ ReportOf(t, r) = record[3]

\* the run is past the selection of the transmitters
Selected == pc \notin {"loadOperators", "loadReports", "selectCalls"}

\* the selection cfg.CallSigns asks for every transmitter, in any letter case
AsksForAll == ToUpper(cfg.CallSigns) = <<"A", "L", "L">>

\* C11: when the call-sign selection is "all", in any letter case, the
\* transmitters selected are all the transmitters of the report file, and a
\* completed run has made a map file for each of them.
C11_AllSelectsEvery ==
    (Selected /\ AsksForAll) =>
        /\ transmitters = DOMAIN reports
        /\ pc = "Done" => \A t \in DOMAIN reports : MapName(t) \in DOMAIN files

\* the call signs of the filter that are transmitters of the report file, and
\* those that are not
FilterWithReports == {call \in Range(FilterCalls) : call \in DOMAIN reports}

FilterWithoutReports == Range(FilterCalls) \ DOMAIN reports

Normal(call) == RemoveSpaces(ToUpper(call))

\* the call signs the run holds as keys: of the operators, of the reports and
\* of the filter
CallSignKeys ==
    DOMAIN operators \cup receivers \cup DOMAIN reports
        \cup UNION {DOMAIN reports[t] : t \in DOMAIN reports}
        \cup (IF cfg.CallSigns # <<"A", "L", "L">> THEN Range(FilterCalls) ELSE {})

\* C13: every call sign is held in its normal form, wherever it was read;
\* the two call signs of a report record are filed under their normal forms;
\* so a receiver or transmitter of the reports whose call sign, in normal
\* form, is the one of an operator record is that operator.
C13_SameNormalForm ==
    /\ \A call \in CallSignKeys : call = Normal(call)
    /\ (pc = "loadReports" /\ record # <<>>) =>
            {Normal(record[1]), Normal(record[2])} \subseteq receivers \cup DOMAIN reports
    /\ \A call \in receivers \cup DOMAIN reports :
            Normal(call) \in DOMAIN operators =>
                OperatorOf(call) = operators[Normal(call)]

\* main is building the map of transmitter
Building ==
    pc \in {"PlotReceivers", "PlotTransmitter", "PlotLegend", "Merge", "Write"}

\* C14: a category without an icon is a silent no-op at every lookup main
\* makes, the one of cfg.TransIcon included: the run never crashes; no icon is
\* drawn for a receiver whose report names such a category, nor for the
\* transmitter when cfg.TransIcon is one; and the map goes on to its legend,
\* its merge and its file.
C14_MissingIconSkipped ==
    /\ pc # "Panic"
    /\ Building =>
        /\ \A r \in receivers \ {transmitter} :
            ReportOf(transmitter, r) \notin DOMAIN icons =>
                CallsFor("blit", OperatorOf(r).callsign) = {}
        /\ cfg.TransIcon \notin DOMAIN icons =>
                CallsFor("blit", OperatorOf(transmitter).callsign) = {}
    /\ (pc = "Done" /\ cfg.TransIcon \notin DOMAIN icons) =>
            \A t \in transmitters : MapName(t) \in DOMAIN files

\* the transmitters whose map is complete: all six steps taken
Completed == {t \in transmitters : <<"Write", t>> \in Range(steps)}

\* C15: when a fatal condition has ended the run while a map was built, there
\* is no file for the transmitter of that map nor for any transmitter after
\* it, completion has not been reported, and nothing happens any more: no
\* step is taken and no file is written.
C15_FatalStops ==
    /\ [](pc = "Fatal" =>
            /\ transmitter \notin Completed
            /\ MapName(transmitter) \notin DOMAIN files
            /\ \A t \in todo : MapName(t) \notin DOMAIN files
            /\ DOMAIN files = {MapName(t) : t \in Completed}
            /\ <<"Done", <<>>>> \notin Range(steps))
    /\ [][pc = "Fatal" => (pc' = "Fatal" /\ files' = files /\ steps' = steps)]_vars

\* a fatal condition on the first of two maps
C15_Witness ==
    /\ pc = "Fatal"
    /\ todo # {}
    /\ Len(steps) = 3

\* C16: when the raster of a map could not be encoded into its file, the run
\* has ended on a fatal error: main has not gone on to another transmitter
\* and has not reported completion.
C16_EncodeFailureAborts ==
    (\E f \in DOMAIN files : files[f] = PartialFile) =>
        /\ pc = "Fatal"
        /\ files[MapName(transmitter)] = PartialFile
        /\ <<"Done", <<>>>> \notin Range(steps)

\* the run is complete: completion is reported, every selected transmitter
\* has had each of its six steps once and has its file, and there are as
\* many files as selected transmitters
RunComplete ==
    /\ pc = "Done"
    /\ \A t \in transmitters :
        /\ \A k \in DOMAIN StepNames :
            Cardinality({i \in DOMAIN steps : steps[i] = <<StepNames[k], t>>}) = 1
        /\ MapName(t) \in DOMAIN files
    /\ Cardinality(DOMAIN files) = Cardinality(transmitters)

\* C17: in an environment without failures, whatever the operator and report
\* files hold (receivers without a report for a transmitter, categories
\* without an icon, receivers without an operator record), the run never
\* ends on a fatal error or a crash and eventually is complete: every
\* selected transmitter processed once, one file for each, completion
\* reported.
C17_GapsNeverFatal ==
    /\ [](pc \notin {"Fatal", "Panic"})
    /\ <>RunComplete

\* a complete run over data with all three gaps: on the map of A the
\* receiver B has a report without icon and no operator record, and on the
\* map of B the receiver A has no report
C17_Witness ==
    /\ RunComplete
    /\ transmitters = {<<"A">>, <<"B">>}
    /\ ReportOf(<<"A">>, <<"B">>) = "Odd"
    /\ <<"B">> \notin DOMAIN operators
    /\ ReportOf(<<"B">>, <<"A">>) = ""
    /\ <<"A">> \in receivers

---------------------------------------------------------------------------
(* The projector *)

\* the stations loadOperators has projected
Stations == {operators[c] : c \in DOMAIN operators}

\* gps lies within the configured bounds of the map
InBounds(gps) ==
    /\ cfg.MapSECorner[1] <= gps[1] /\ gps[1] <= cfg.MapNWCorner[1]
    /\ cfg.MapNWCorner[2] <= gps[2] /\ gps[2] <= cfg.MapSECorner[2]

\* pixels p and q are at most one pixel apart on each axis
Near(p, q) ==
    /\ p[1] - q[1] \in -1..1
    /\ p[2] - q[2] \in -1..1

\* C18: a station at the configured north-west corner is projected to within
\* one pixel of (0, 0), and a station at the configured south-east corner to
\* within one pixel of (W, H), W and H being the size of the map image, for
\* every map file and every pair of corners surveyed.
C18_CornersToCorners ==
    \A o \in Stations :
        /\ o.gps = cfg.MapNWCorner => Near(o.pixel, <<0, 0>>)
        /\ o.gps = cfg.MapSECorner => Near(o.pixel, <<baseMap.W, baseMap.H>>)

\* both corners of a map that is taller than wide are projected
C18_Witness ==
    /\ baseMap.H - baseMap.W >= 2
    /\ \E a, b \in Stations :
        /\ a.gps = cfg.MapNWCorner /\ a.pixel = <<0, 0>>
        /\ b.gps = cfg.MapSECorner /\ b.pixel = <<baseMap.W, baseMap.H>>

\* C19 as stated: of two stations inside the bounds, the one at the greater
\* latitude has the strictly smaller pixel Y and the one at the greater
\* longitude the strictly greater pixel X.
C19_StrictlyMonotonic ==
    \A a, b \in Stations :
        (InBounds(a.gps) /\ InBounds(b.gps)) =>
            /\ a.gps[1] > b.gps[1] => a.pixel[2] < b.pixel[2]
            /\ a.gps[2] > b.gps[2] => a.pixel[1] > b.pixel[1]

\* the extent of one pixel row and of one pixel column, times the size of the
\* image: a and b are a pixel or more apart when their difference times the
\* size of the image reaches the extent of the map
RowsApart(a, b) ==
    (a.gps[1] - b.gps[1]) * baseMap.H >= cfg.MapNWCorner[1] - cfg.MapSECorner[1]

ColumnsApart(a, b) ==
    (a.gps[2] - b.gps[2]) * baseMap.W >= cfg.MapSECorner[2] - cfg.MapNWCorner[2]

\* C19 amended: of two stations inside the bounds, the one at the greater
\* latitude never has the greater pixel Y and the one at the greater longitude
\* never has the smaller pixel X; the order is strict once the two are a
\* pixel or more apart on that axis.
C19_Monotonic ==
    \A a, b \in Stations :
        (InBounds(a.gps) /\ InBounds(b.gps)) =>
            /\ a.gps[1] > b.gps[1] => a.pixel[2] <= b.pixel[2]
            /\ a.gps[2] > b.gps[2] => a.pixel[1] >= b.pixel[1]
            /\ RowsApart(a, b) => a.pixel[2] < b.pixel[2]
            /\ ColumnsApart(a, b) => a.pixel[1] > b.pixel[1]

\* two stations inside the bounds, one north and east of the other, that
\* share a pixel row and lie in different pixel columns
C19_Witness ==
    \E a, b \in Stations :
        /\ InBounds(a.gps) /\ InBounds(b.gps)
        /\ a.gps[1] > b.gps[1] /\ a.pixel[2] = b.pixel[2]
        /\ a.gps[2] > b.gps[2] /\ ColumnsApart(a, b) /\ a.pixel[1] > b.pixel[1]

\* floor(n/d + 1/2) for d > 0
FloorHalfUp(n, d) == (2 * n + d) \div (2 * d)

\* the pixel the round-half-up rule floor(q + 0.5) gives to gps, q being the
\* offset from the north-west corner in pixels
RoundedPixel(gps) ==
    LET NW == FromLatLon(cfg.MapNWCorner[1], cfg.MapNWCorner[2])
        SE == FromLatLon(cfg.MapSECorner[1], cfg.MapSECorner[2])
        en == FromLatLon(gps[1], gps[2])
    IN <<FloorHalfUp((en[1] - NW[1]) * baseMap.W, SE[1] - NW[1]),
         FloorHalfUp((NW[2] - en[2]) * baseMap.H, NW[2] - SE[2])>>

\* C20: the pixel of every station, those slightly north or west of the
\* north-west corner included, is the round-half-up value floor(q + 0.5) on
\* each axis.
C20_RoundHalfUp ==
    \A o \in Stations : o.pixel = RoundedPixel(o.gps)

\* inside the bounds the projector does give the round-half-up value
C20_RoundHalfUpInside ==
    \A o \in Stations : InBounds(o.gps) => o.pixel = RoundedPixel(o.gps)

---------------------------------------------------------------------------
(* Layers *)

\* the merge has just been made right after the reset of this map
MergedAfterReset ==
    /\ pc = "Write"
    /\ Len(steps) >= 2
    /\ steps[Len(steps) - 1] = <<"Reset", transmitter>>

\* C21: when the text layer is merged right after the reset, no icon having
\* been blitted and no text drawn in between, the output raster equals the
\* base map at every pixel.
C21_ResetMergeIsBase ==
    MergedAfterReset =>
        /\ outputMap.W = baseMap.W /\ outputMap.H = baseMap.H
        /\ \A p \in Points(baseMap) : At(outputMap, p) = At(baseMap, p)

\* the merge right after the reset of the second map, the first map having
\* been written with an icon and text on it
C21_Witness ==
    /\ MergedAfterReset
    /\ Len(steps) = 8
    /\ \E f \in DOMAIN files :
        /\ files[f] # PartialFile
        /\ \E p \in Points(files[f]) : At(files[f], p) = <<100, 255>>
        /\ \E p \in Points(files[f]) : At(files[f], p) = TextColor

\* the map of the transmitter has been merged, and written if pc = "loop"
Merged == pc = "Write" \/ (pc = "loop" /\ transmitter # <<>>)

\* the pixels of the raster that the text of a label or legend call covers
TextPixels(c) ==
    {p \in Points(outputMap) :
        /\ p[2] = c.at[2] - 1
        /\ p[1] - c.at[1] \in 0 .. Len(c.text) - 1}

\* the pixels of the raster that an opaque pixel of the icon of a blit call
\* covers
OpaquePixels(c) ==
    {p \in Points(outputMap) :
        LET q == <<p[1] - c.at[1], p[2] - c.at[2]>>
        IN q \in Points(c.img) /\ At(c.img, q)[2] = 255}

\* C22 as stated: in the merged raster no pixel covered by an opaque part of
\* an operator's icon shows the text of the label of another operator.
C22_IconNotUnderOtherLabel ==
    Merged =>
        \A i \in CallsOf("blit") : \A j \in CallsOf("label") :
            calls[j].call # calls[i].call =>
                \A p \in OpaquePixels(calls[i]) \cap TextPixels(calls[j]) :
                    At(outputMap, p) # TextColor

\* C22 amended: in the merged raster every pixel covered by the text of a
\* label or of the legend shows the text, whatever icon lies there: no label
\* is occluded by an icon, its own or another operator's.
C22_LabelOverEveryIcon ==
    Merged =>
        \A j \in CallsOf("label") \cup CallsOf("legend") :
            \A p \in TextPixels(calls[j]) : At(outputMap, p) = TextColor

\* the label of one operator lies on an opaque pixel of the icon of another
C22_Witness ==
    /\ Merged
    /\ \E i \in CallsOf("blit") : \E j \in CallsOf("label") :
        /\ calls[j].call # calls[i].call
        /\ OpaquePixels(calls[i]) \cap TextPixels(calls[j]) # {}

---------------------------------------------------------------------------
(* The legend cursor *)

IsLegend(c) == c.op = "legend"

\* the legend lines drawn on this map so far, in order
LegendCalls == SelectSeq(calls, IsLegend)

\* int(FontSize * 5 + 0.5)
LeftMargin == IntHalfUp(cfg.FontSize.n * 5, cfg.FontSize.d)

\* int(FontSize * FontLineSpacing * FontDPI / 72 + 0.5)
LineHeight ==
    IntHalfUp(cfg.FontSize.n * cfg.FontLineSpacing.n * cfg.FontDPI.n,
              cfg.FontSize.d * cfg.FontLineSpacing.d * cfg.FontDPI.d * 72)

\* the bottom-anchored start of the legend:
\* height - int(FontSize * FontLineSpacing * FontDPI / 72 * 8 + 0.5)
LegendStart ==
    baseMap.H
    - IntHalfUp(8 * cfg.FontSize.n * cfg.FontLineSpacing.n * cfg.FontDPI.n,
                cfg.FontSize.d * cfg.FontLineSpacing.d * cfg.FontDPI.d * 72)

\* C23: on every map the legend cursor starts at the left margin and the
\* bottom-anchored start, and the k-th legend line of the map is drawn at
\* x = left margin, y = start + (k - 1) * line height, whichever attribute
\* lines were left out; after k lines the cursor stands k line heights below
\* the start.
C23_LegendCursor ==
    /\ \A k \in 1 .. Len(LegendCalls) :
        LegendCalls[k].at = <<LeftMargin, LegendStart + (k - 1) * LineHeight>>
    /\ pc \in {"PlotReceivers", "PlotTransmitter", "PlotLegend", "Merge", "Write"} =>
        drawLegend = [cursorX |-> LeftMargin,
                      cursorY |-> LegendStart + Len(LegendCalls) * LineHeight]

\* the legend of a second map, with two of the attribute lines left out,
\* after a first map with another number of lines
C23_Witness ==
    /\ pc = "Merge"
    /\ Len(steps) = 10
    /\ Len(LegendCalls) = 4
    /\ LegendCalls[4].at = <<LeftMargin, LegendStart + 3 * LineHeight>>

---------------------------------------------------------------------------
(* plotIcon *)

\* C24: the icon of a blit has its top-left corner at (px - floor(w/2),
\* py - floor(h/2)), px and py being the pixel of the operator; the rectangle
\* of the icon's size at that corner contains the operator's pixel; after one
\* plotIcon on reset layers the output raster is the base map with the icon
\* composed over it by alpha-over inside that rectangle and unchanged outside,
\* and the text layer holds nothing but the label.
C24_IconCentred ==
    /\ \A i \in CallsOf("blit") :
        LET c == calls[i]
            o == OperatorOf(c.call)
        IN /\ c.at = <<o.pixel[1] - (c.img.W \div 2), o.pixel[2] - (c.img.H \div 2)>>
           /\ o.pixel[1] - c.at[1] \in 0 .. c.img.W - 1
           /\ o.pixel[2] - c.at[2] \in 0 .. c.img.H - 1
    /\ pc = "Plotted" =>
        /\ Len(calls) = 2 /\ calls[1].op = "blit" /\ calls[2].op = "label"
        /\ \A p \in Points(baseMap) :
            LET q == <<p[1] - calls[1].at[1], p[2] - calls[1].at[2]>>
            IN At(outputMap, p) =
                    IF q \in Points(calls[1].img)
                    THEN Over(At(baseMap, p), At(calls[1].img, q))
                    ELSE At(baseMap, p)
        /\ \A p \in Points(mapTextImage) :
            At(mapTextImage, p) =
                IF p \in TextPixels(calls[2]) THEN TextColor ELSE Transparent

\* an icon 3 wide and 2 high has been plotted, part of it on the raster
C24_Witness ==
    /\ pc = "Plotted"
    /\ calls[1].img.W = 3 /\ calls[1].img.H = 2
    /\ outputMap # baseMap

---------------------------------------------------------------------------
(* Malformed bounds *)

\* the south-east corner is strictly south and east of the north-west corner
WellFormedBounds ==
    /\ cfg.MapSECorner[1] < cfg.MapNWCorner[1]
    /\ cfg.MapSECorner[2] > cfg.MapNWCorner[2]

\* C25: under bounds that do not define a positive extent on both axes no
\* operator is ever projected and no map is ever written.
C25_MalformedBoundsFatal ==
    ~WellFormedBounds => (operators = <<>> /\ files = <<>>)

\* the blit and the label that one plotIcon call has logged
IconAndLabel ==
    {<<i, j>> \in CallsOf("blit") \X CallsOf("label") : j = i + 1}

\* the x coordinate just right of the icon of a blit: px - floor(w/2) + w
RightEdge(c) == c.at[1] + c.img.W

\* C26 as stated: the label of a plotted operator never starts left of the
\* right edge of its icon, for every icon width and font size.
C26_LabelRightOfIcon ==
    \A ij \in IconAndLabel : calls[ij[2]].at[1] >= RightEdge(calls[ij[1]])

\* C26 amended: the label never starts left of the right edge of its icon
\* when the font size is at least 1 point or the width of the icon is even;
\* with a smaller font and an odd width it starts one pixel left of the edge.
C26_LabelRightOfIconFromOnePoint ==
    \A ij \in IconAndLabel :
        IF cfg.FontSize.n >= cfg.FontSize.d \/ calls[ij[1]].img.W % 2 = 0
        THEN calls[ij[2]].at[1] >= RightEdge(calls[ij[1]])
        ELSE calls[ij[2]].at[1] = RightEdge(calls[ij[1]]) - 1

\* an icon of width 3 plotted with a font of 1 point: the label starts at
\* the right edge
C26_Witness ==
    /\ cfg.FontSize = [n |-> 1, d |-> 1]
    /\ \E ij \in IconAndLabel :
        /\ calls[ij[1]].img.W = 3
        /\ calls[ij[2]].at[1] = RightEdge(calls[ij[1]])

---------------------------------------------------------------------------
(* Iteration order *)

\* the layers as the reset of this map left them
ResetCanvas ==
    [Canvas EXCEPT !.out = DrawSrc(@, baseMap),
                   !.text = DrawSrc(@, TransparentImage),
                   !.calls = <<>>]

\* C27: the rasters the receiver loop has left are those it leaves in every
\* other order of visiting the receivers, so the written raster does not
\* depend on the order of iteration.
C27_OrderIndependent ==
    pc = "PlotTransmitter" =>
        \A order \in Orders(receivers) :
            /\ outputMap = plotReceivers(ResetCanvas, transmitter, order).out
            /\ mapTextImage = plotReceivers(ResetCanvas, transmitter, order).text

---------------------------------------------------------------------------
(* The space of the legend *)

\* C28: a map has at most 6 legend lines, and with a line height of at least
\* 1 pixel the baseline of each lies strictly above the bottom edge of the
\* image.
C28_LegendFits ==
    /\ Len(LegendCalls) <= 6
    /\ LineHeight >= 1 =>
        \A k \in 1 .. Len(LegendCalls) : LegendCalls[k].at[2] < baseMap.H

---------------------------------------------------------------------------
(* The transmitter on its own map *)

\* the transmitter step of the current map is over
TransmitterStepDone ==
    pc \in {"PlotLegend", "Merge", "Write"} \/ (pc = "loop" /\ transmitter # <<>>)

\* C29: while the receivers of T's map are plotted, nothing is drawn for T,
\* whatever the report of T on itself; once the transmitter step is over, T
\* has at most one icon and one label, the icon is the configured
\* transmitter icon at T's position, and T has them if it has an operator
\* record, whether or not it is also a receiver.
C29_TransmitterOnceOnly ==
    /\ pc = "PlotTransmitter" =>
        (CallsFor("blit", transmitter) = {} /\ CallsFor("label", transmitter) = {})
    /\ TransmitterStepDone =>
        /\ Cardinality(CallsFor("blit", transmitter)) <= 1
        /\ Cardinality(CallsFor("label", transmitter)) <= 1
        /\ \A i \in CallsFor("blit", transmitter) :
            /\ calls[i].img = IconOf(cfg.TransIcon)
            /\ calls[i].at = IconOffset(calls[i].img, operators[transmitter])
        /\ transmitter \in DOMAIN operators =>
            /\ Cardinality(CallsFor("blit", transmitter)) = 1
            /\ Cardinality(CallsFor("label", transmitter)) = 1

\* the transmitter, which has reported on itself with a category of the
\* catalog, has been plotted once
C29_Witness ==
    /\ pc = "Merge"
    /\ transmitter \in receivers
    /\ ReportOf(transmitter, transmitter) = "Good"
    /\ Cardinality(CallsFor("blit", transmitter)) = 1

---------------------------------------------------------------------------
(* Hyphenated call signs *)

\* the receivers of the current map whose report has a category of the
\* catalog
Reported ==
    {R \in receivers :
        R # transmitter /\ ReportOf(transmitter, R) \in DOMAIN icons}

\* C30: after the receiver loop of a map, the call signs with an icon are
\* exactly the reported receivers that are keys of the operator catalog: a
\* reported receiver with a hyphen that is no key of the catalog has no icon
\* and causes none for the call sign before its hyphen, its icon is at its
\* own position if it is a key, and the run has not stopped.
C30_ExactMatch ==
    /\ pc = "PlotTransmitter" =>
        /\ {calls[i].call : i \in CallsOf("blit")} = Reported \cap DOMAIN operators
        /\ \A i \in CallsOf("blit") :
            calls[i].at = IconOffset(calls[i].img, operators[calls[i].call])
    /\ pc \notin {"Fatal", "Panic"}

\* "B-1" is reported and is no key of the catalog, "B" is a key and is not
\* reported: the receiver loop has drawn nothing
C30_Witness ==
    /\ pc = "PlotTransmitter"
    /\ <<"B", "-", "1">> \in Reported \ DOMAIN operators
    /\ <<"B">> \in DOMAIN operators \ Reported
    /\ calls = <<>>

====
